---- MODULE Spec2Model ----
(***************************************************************************)
(* Model of the nudge relay server (src/src/server.rs): the session store  *)
(* client_map, the control loop RelayServer::run and its three request     *)
(* handlers.  One step of the model is one iteration of the loop: one      *)
(* datagram received and handled to completion (Spec).                     *)
(*                                                                         *)
(* Two further specifications cover the peers: SpecHandshake, the          *)
(* rendezvous of Send::run (src/src/send.rs) and Get::run (src/src/get.rs) *)
(* with the relay server, and SpecTransfer, the transfer loops of the two  *)
(* peers over the reliable datagram transport.  Each specification holds   *)
(* the variables of the others at their initial values.                    *)
(***************************************************************************)
EXTENDS Integers, Sequences, FiniteSets, TLC

(* ------------------------------ bounds --------------------------------- *)
NumAddrs == 2      \* socket addresses of the parties talking to the server
NumPass == 2       \* tokens the passphrase generator can issue

Addrs == 1..NumAddrs
Passphrases == 1..NumPass
NoPass == 0                        \* generate() returned None
NoHash == "null"                   \* AnonymousString(None): hashing skipped
FileHashes == {"deadbeef"}         \* AnonymousString(Some(h))
BadHash == "deadbeee"              \* a hash string no registered file has
NoHost == 0                        \* AnonymousString(None): hostname hidden
Hosts == {NoHost} \cup Addrs       \* party a's hostname is written a
FileNames == {"a.bin", "b.bin"}
FileSizes == {1024}
Times == {0}                       \* readings of current_unix_millis()

(* ----------------------------- wire payloads --------------------------- *)
\* a body that serde_json::from_str rejects
Malformed == [json |-> FALSE]

S2XRequestPassphraseMessage ==
    [json : {TRUE}, sender_host : Hosts, file_size : FileSizes,
     file_hash : {NoHash} \cup FileHashes, file_name : FileNames]

R2XRequestFileInfoMessage == [json : {TRUE}, passphrase : Passphrases]

R2XRequestSenderConnectionMessage ==
    [json : {TRUE}, passphrase : Passphrases,
     file_hash : {NoHash, BadHash} \cup FileHashes, receiver_host : Hosts]

(* ------------------------------ session store -------------------------- *)
\* HashMap::insert: the value under an existing key is replaced
InsertKeepsExisting(map, p, fi) ==
    [q \in DOMAIN map \cup {p} |-> IF q \in DOMAIN map THEN map[q] ELSE fi]

Insert(map, p, fi) ==
    [q \in DOMAIN map \cup {p} |-> IF q = p THEN fi ELSE map[q]]

RemoveKeepsEntry(map, p) == map

\* HashMap::remove
Remove(map, p) == [q \in DOMAIN map \ {p} |-> map[q]]

EmptyMap == [q \in {} |-> 0]

(* ------------------------------ handlers ------------------------------- *)
\* Each handler is modelled as a function of the store and its arguments to
\* the store it leaves behind, the datagrams it hands to listener.send_to, and
\* its Result.
Outcome(map, sent, result) == [map |-> map, sent |-> sent, result |-> result]

\* listener.send_to(...)?: the datagram leaves, or the call fails with an
\* I/O error and nothing is sent
SendTo(to, tag, body, sendOk) ==
    IF sendOk THEN <<[to |-> to, tag |-> tag, body |-> body]>> ELSE <<>>

SendResult(sendOk) == IF sendOk THEN "Ok" ELSE "Io"

MakeFileInfoFromHost(addr, payload, now) ==
    [file_size |-> payload.file_size, file_name |-> payload.file_name,
     file_hash |-> payload.file_hash, created_at |-> now,
     sender_host |-> payload.sender_host, sender_addr |-> payload.sender_host]

MakeFileInfo(addr, payload, now) ==
    [file_size |-> payload.file_size, file_name |-> payload.file_name,
     file_hash |-> payload.file_hash, created_at |-> now,
     sender_host |-> payload.sender_host, sender_addr |-> addr]

send_passphrase_to_sender(map, addr, passphrase, sendOk) ==
    Outcome(map, SendTo(addr, "X2S_PPM", [passphrase |-> passphrase], sendOk),
            SendResult(sendOk))

HandleRegisterUnwrapOrDefault(map, addr, payload, gen, now, sendOk) ==
    IF ~payload.json THEN Outcome(map, <<>>, "Json")
    ELSE LET p == IF gen = NoPass THEN 1 ELSE gen
         IN send_passphrase_to_sender(
                Insert(map, p, MakeFileInfo(addr, payload, now)), addr, p, sendOk)

\* S2X_RP: gen is what passphrase_generator.generate() returns, now what
\* current_unix_millis() reads
handle_sender_request_passphrase_message(map, addr, payload, gen, now, sendOk) ==
    IF ~payload.json THEN Outcome(map, <<>>, "Json")
    ELSE IF gen = NoPass THEN Outcome(map, <<>>, "PassphraseGenerationError")
    ELSE send_passphrase_to_sender(
             Insert(map, gen, MakeFileInfo(addr, payload, now)), addr, gen, sendOk)

send_file_info_to_receiver(map, addr, file_info, sendOk) ==
    Outcome(map, SendTo(addr, "X2R_AFI", file_info, sendOk), SendResult(sendOk))

HandleLookupTakesEntry(map, addr, payload, sendOk) ==
    IF ~payload.json THEN Outcome(map, <<>>, "Json")
    ELSE IF payload.passphrase \in DOMAIN map
         THEN send_file_info_to_receiver(Remove(map, payload.passphrase), addr,
                                         map[payload.passphrase], sendOk)
         ELSE Outcome(map, <<>>, "PassphraseNotFound")

\* R2X_RFI
handle_receiver_request_file_info(map, addr, payload, sendOk) ==
    IF ~payload.json THEN Outcome(map, <<>>, "Json")
    ELSE IF payload.passphrase \in DOMAIN map
         THEN send_file_info_to_receiver(map, addr, map[payload.passphrase], sendOk)
         ELSE Outcome(map, <<>>, "PassphraseNotFound")

SendConnectToRequester(map, sender_addr, receiver_addr, receiver_host, sendOk) ==
    Outcome(map,
            SendTo(receiver_addr, "X2S_SCON",
                   [receiver_addr |-> receiver_addr, receiver_host |-> receiver_host],
                   sendOk),
            SendResult(sendOk))

send_sender_connect_to_receiver(map, sender_addr, receiver_addr, receiver_host, sendOk) ==
    Outcome(map,
            SendTo(sender_addr, "X2S_SCON",
                   [receiver_addr |-> receiver_addr, receiver_host |-> receiver_host],
                   sendOk),
            SendResult(sendOk))

\* file_info.file_hash == payload.file_hash, on AnonymousString (an optional
\* string): two absent hashes are equal
HashMatches(stored, claimed) == stored = claimed

HandleAcceptDropsOnMismatch(map, addr, payload, sendOk) ==
    IF ~payload.json THEN Outcome(map, <<>>, "Json")
    ELSE IF payload.passphrase \notin DOMAIN map
         THEN Outcome(map, <<>>, "PassphraseNotFound")
    ELSE IF HashMatches(map[payload.passphrase].file_hash, payload.file_hash)
         THEN send_sender_connect_to_receiver(
                  Remove(map, payload.passphrase),
                  map[payload.passphrase].sender_addr, addr,
                  payload.receiver_host, sendOk)
         ELSE Outcome(Remove(map, payload.passphrase), <<>>, "PassphraseNotFound")

HandleAcceptHashMismatchError(map, addr, payload, sendOk) ==
    IF ~payload.json THEN Outcome(map, <<>>, "Json")
    ELSE IF payload.passphrase \notin DOMAIN map
         THEN Outcome(map, <<>>, "PassphraseNotFound")
    ELSE IF HashMatches(map[payload.passphrase].file_hash, payload.file_hash)
         THEN send_sender_connect_to_receiver(
                  Remove(map, payload.passphrase),
                  map[payload.passphrase].sender_addr, addr,
                  payload.receiver_host, sendOk)
         ELSE Outcome(map, <<>>, "HashMismatch")

\* R2X_RSC
handle_receiver_accept(map, addr, payload, sendOk) ==
    IF ~payload.json THEN Outcome(map, <<>>, "Json")
    ELSE IF payload.passphrase \notin DOMAIN map
         THEN Outcome(map, <<>>, "PassphraseNotFound")
    ELSE IF HashMatches(map[payload.passphrase].file_hash, payload.file_hash)
         THEN send_sender_connect_to_receiver(
                  Remove(map, payload.passphrase),
                  map[payload.passphrase].sender_addr, addr,
                  payload.receiver_host, sendOk)
         ELSE Outcome(map, <<>>, "PassphraseNotFound")

\* PassphraseGenerator::generate(): some token, not necessarily a fresh one, or
\* None when the generator is exhausted
Generate == Passphrases \cup {NoPass}

(* -------------------------------- state -------------------------------- *)
VARIABLES
    client_map,   \* RelayServer.client_map
    running,      \* TRUE while run() is in its loop, FALSE once it returned
    last,         \* the datagram handled by the latest iteration, its outcome
    sent,         \* the datagrams that iteration handed to send_to
    spent,        \* passphrases an R2X_RSC has succeeded for and that no
                  \* registration has been issued since
    file,         \* Send::run: the bytes of the file being sent
    snd,          \* Send::run: locals of the transfer loop and the sending
                  \* half of its ReliableUdpSocket
    rcv,          \* Get::run: locals of the transfer loop, the output file
                  \* and the receiving half of its ReliableUdpSocket
    chan,         \* frames in flight from the sender to the receiver
    acks,         \* acknowledgments in flight from the receiver to the sender
    drops,        \* frames and acknowledgments the network has lost so far
    hs_sender,    \* Send::run: position in the rendezvous with the relay
    hs_recv,      \* Get::run of each receiver: position in the rendezvous
    net,          \* datagrams in flight to the relay server
    inbox,        \* datagrams the relay server has sent to the peers
    verdict       \* what the relay server made of each receiver's R2X_RSC

vars == <<client_map, running, last, sent, spent>>

\* the state of a transfer between two peers
transfer_vars == <<file, snd, rcv, chan, acks, drops>>

\* the state of the peers' rendezvous with the relay server
handshake_vars == <<hs_sender, hs_recv, net, inbox, verdict>>

all_vars == <<vars, transfer_vars, handshake_vars>>

Request(src, kind, passphrase, file_hash, result) ==
    [src |-> src, kind |-> kind, passphrase |-> passphrase,
     file_hash |-> file_hash, result |-> result]

\* an S2X_RP and its outcome; replaced tells whether the passphrase issued
\* was the key of another sender's record at that moment
Registration(src, passphrase, file_hash, result, replaced) ==
    [src |-> src, kind |-> "S2X_RP", passphrase |-> passphrase,
     file_hash |-> file_hash, result |-> result, replaced |-> replaced]

\* Send::run on entering its transfer loop with the given --chunk-size
SenderAt(chunk_size) ==
    [pc |-> "read", chunk_size |-> chunk_size, pos |-> 0, buffer |-> <<>>,
     bytes_sent |-> 0, current_progress |-> 0, sequence_number |-> 0,
     tries |-> 0, transport_error |-> FALSE]

\* Get::run on entering its transfer loop with the given --chunk-size
ReceiverAt(chunk_size) ==
    [pc |-> "read", chunk_size |-> chunk_size, expected |-> 0,
     read_buffer |-> <<>>, out |-> <<>>, bytes_received |-> 0,
     current_progress |-> 0, event |-> "none"]

\* no transfer is going on
NoTransfer ==
    /\ file = <<>>
    /\ snd = [SenderAt(1) EXCEPT !.pc = "idle"]
    /\ rcv = [ReceiverAt(1) EXCEPT !.pc = "idle"]
    /\ chan = {}
    /\ acks = {}
    /\ drops = 0

\* no peer is in a rendezvous
NoHandshake ==
    /\ hs_sender = [pc |-> "idle", passphrase |-> NoPass, peer |-> 0]
    /\ hs_recv = <<>>
    /\ net = {}
    /\ inbox = {}
    /\ verdict = <<>>

ServerInit ==
    /\ client_map = EmptyMap
    /\ running = TRUE
    /\ last = Request(0, "none", NoPass, NoHash, "Ok")
    /\ sent = <<>>
    /\ spent = {}

Init ==
    /\ ServerInit
    /\ NoTransfer
    /\ NoHandshake

\* listener.recv_from(&mut buf)? fails: run() returns the error
RecvError ==
    /\ running
    /\ running' = FALSE
    /\ last' = Request(0, "recv_error", NoPass, NoHash, "Io")
    /\ sent' = <<>>
    /\ UNCHANGED <<client_map, spent>>
    /\ UNCHANGED <<transfer_vars, handshake_vars>>

\* std::str::from_utf8(&buf[..len])? on bytes that are not UTF-8: run()
\* returns the error
InvalidUtf8 ==
    /\ running
    /\ \E a \in Addrs :
         last' = Request(a, "invalid_utf8", NoPass, NoHash, "Utf8")
    /\ running' = FALSE
    /\ sent' = <<>>
    /\ UNCHANGED <<client_map, spent>>
    /\ UNCHANGED <<transfer_vars, handshake_vars>>

\* text that starts with none of the three tags: the loop body falls through
UnknownTag ==
    /\ running
    /\ \E a \in Addrs :
         last' = Request(a, "unknown_tag", NoPass, NoHash, "Ignored")
    /\ sent' = <<>>
    /\ UNCHANGED <<client_map, running, spent>>
    /\ UNCHANGED <<transfer_vars, handshake_vars>>

\* the S2X_RP payloads party a sends: the file a.bin of 1024 bytes, hashed or
\* not, and its hostname
SenderPayloads(a) ==
    {pl \in S2XRequestPassphraseMessage :
        pl.sender_host = a /\ pl.file_name = "a.bin" /\ pl.file_size = 1024}
        \cup {Malformed}

SenderRequestPassphrase ==
    /\ running
    /\ \E a \in Addrs : \E payload \in SenderPayloads(a),
          gen \in Generate, now \in Times, sendOk \in BOOLEAN :
         LET out == handle_sender_request_passphrase_message(
                        client_map, a, payload, gen, now, sendOk)
             issued == IF out.result \in {"Ok", "Io"} THEN gen ELSE NoPass
         IN /\ client_map' = out.map
            /\ sent' = out.sent
            /\ last' = Registration(a, issued,
                               IF payload.json THEN payload.file_hash ELSE NoHash,
                               out.result,
                               /\ issued \in DOMAIN client_map
                               /\ client_map[issued].sender_addr # a)
            /\ spent' = spent \ {issued}
    /\ UNCHANGED running
    /\ UNCHANGED <<transfer_vars, handshake_vars>>

ReceiverRequestFileInfo ==
    /\ running
    /\ \E a \in Addrs, payload \in R2XRequestFileInfoMessage \cup {Malformed},
          sendOk \in BOOLEAN :
         LET out == handle_receiver_request_file_info(client_map, a, payload, sendOk)
         IN /\ client_map' = out.map
            /\ sent' = out.sent
            /\ last' = Request(a, "R2X_RFI",
                               IF payload.json THEN payload.passphrase ELSE NoPass,
                               NoHash, out.result)
    /\ UNCHANGED <<running, spent>>
    /\ UNCHANGED <<transfer_vars, handshake_vars>>

\* the R2X_RSC payloads party a sends: any passphrase and hash, and its
\* hostname or none
ReceiverPayloads(a) ==
    {pl \in R2XRequestSenderConnectionMessage : pl.receiver_host \in {NoHost, a}}
        \cup {Malformed}

ReceiverAccept ==
    /\ running
    /\ \E a \in Addrs : \E payload \in ReceiverPayloads(a), sendOk \in BOOLEAN :
         LET out == handle_receiver_accept(client_map, a, payload, sendOk)
             succeeded == out.result = "Ok"
         IN /\ client_map' = out.map
            /\ sent' = out.sent
            /\ last' = Request(a, "R2X_RSC",
                               IF payload.json THEN payload.passphrase ELSE NoPass,
                               IF payload.json THEN payload.file_hash ELSE NoHash,
                               out.result)
            /\ spent' = IF succeeded THEN spent \cup {payload.passphrase}
                        ELSE spent
    /\ UNCHANGED running
    /\ UNCHANGED <<transfer_vars, handshake_vars>>

Next ==
    \/ RecvError
    \/ InvalidUtf8
    \/ UnknownTag
    \/ SenderRequestPassphrase
    \/ ReceiverRequestFileInfo
    \/ ReceiverAccept

Spec == Init /\ [][Next]_all_vars

(* ------------------------------ properties ----------------------------- *)
ClaimedHashes == {NoHash, BadHash} \cup FileHashes

Lookup(p) == [json |-> TRUE, passphrase |-> p]

Confirm(p, h, host) ==
    [json |-> TRUE, passphrase |-> p, file_hash |-> h, receiver_host |-> host]

\* every lookup and every confirmation with p is answered passphrase-not-found
\* by a server whose store is map
AnsweredNotFound(map, p) ==
    /\ \A a \in Addrs, sendOk \in BOOLEAN :
         handle_receiver_request_file_info(map, a, Lookup(p), sendOk).result
             = "PassphraseNotFound"
    /\ \A a \in Addrs, h \in ClaimedHashes, host \in Hosts, sendOk \in BOOLEAN :
         handle_receiver_accept(map, a, Confirm(p, h, host), sendOk).result
             = "PassphraseNotFound"

\* C1 as claimed: once a confirmation for p has succeeded, whatever request
\* the server handles next (send failures apart), lookups and confirmations
\* with p are answered passphrase-not-found.
C1_SingleUseForever ==
    [][\A p \in spent :
         last'.result # "Io" => AnsweredNotFound(client_map', p)]_vars

\* C1 as amended: from the confirmation for p that succeeded until a
\* registration is issued p again, every lookup and every confirmation with p
\* is answered passphrase-not-found.
C1_SingleUseUntilReissued ==
    \A p \in spent : AnsweredNotFound(client_map, p)

\* a lookup or confirmation with a consumed passphrase was answered not-found
C1_Witness ==
    /\ last.kind \in {"R2X_RFI", "R2X_RSC"}
    /\ last.passphrase \in spent
    /\ last.result = "PassphraseNotFound"

\* C2: a confirmation for a registered passphrase with a hash other than the
\* stored one is rejected, sends nothing and leaves the store as it was, and a
\* confirmation with the stored hash handled after it succeeds.
C2_HashGate ==
    /\ \A p \in DOMAIN client_map, a \in Addrs, host \in Hosts, sendOk \in BOOLEAN :
         \A h \in ClaimedHashes \ {client_map[p].file_hash} :
           LET rejected == handle_receiver_accept(
                               client_map, a, Confirm(p, h, host), sendOk)
               retried == handle_receiver_accept(
                              rejected.map, a,
                              Confirm(p, client_map[p].file_hash, host), TRUE)
           IN /\ rejected.result = "PassphraseNotFound"
              /\ rejected.sent = <<>>
              /\ rejected.map = client_map
              /\ retried.result = "Ok"
              /\ p \notin DOMAIN retried.map
    /\ ( /\ last.kind = "R2X_RSC"
         /\ last.passphrase \in DOMAIN client_map
         /\ client_map[last.passphrase].file_hash # last.file_hash )
       => (last.result = "PassphraseNotFound" /\ sent = <<>>)

\* a wrong-hash confirmation was rejected and the record is still stored
C2_Witness ==
    /\ last.kind = "R2X_RSC"
    /\ last.result = "PassphraseNotFound"
    /\ last.passphrase \in DOMAIN client_map
    /\ client_map[last.passphrase].file_hash # last.file_hash
    /\ client_map[last.passphrase].file_hash \in FileHashes

\* C3: a registration followed by a lookup with the passphrase of the X2S_PPM
\* reply returns the registered file name, size, hash and sender host, and as
\* sender address the source address of the registration datagram.
C3_RoundTrip ==
    \A a \in Addrs, payload \in S2XRequestPassphraseMessage,
       gen \in Passphrases, now \in Times, b \in Addrs :
      LET reg == handle_sender_request_passphrase_message(
                     client_map, a, payload, gen, now, TRUE)
      IN /\ reg.result = "Ok"
         /\ reg.sent[1].to = a
         /\ handle_receiver_request_file_info(
                reg.map, b, Lookup(reg.sent[1].body.passphrase), TRUE)
              = [map |-> reg.map,
                 result |-> "Ok",
                 sent |-> <<[to |-> b, tag |-> "X2R_AFI",
                             body |-> [file_name |-> payload.file_name,
                                       file_size |-> payload.file_size,
                                       file_hash |-> payload.file_hash,
                                       sender_host |-> payload.sender_host,
                                       created_at |-> now,
                                       sender_addr |-> a]]>>]

\* a party other than the sender looked a registered record up
C3_Witness ==
    /\ last.kind = "R2X_RFI"
    /\ last.result = "Ok"
    /\ sent[1].body = client_map[last.passphrase]
    /\ sent[1].body.sender_addr # last.src

Altered(p) ==
    p \notin DOMAIN client_map' \/ client_map'[p] # client_map[p]

MatchingConfirmation(p) ==
    /\ last'.kind = "R2X_RSC"
    /\ last'.passphrase = p
    /\ last'.file_hash = client_map[p].file_hash

\* C4 as claimed, for the request that follows the registration: the record
\* of a registration for p that has just succeeded is removed or altered by
\* the next request (send failures apart) only if that is a hash-matching
\* confirmation for p.
C4_OnlyConfirmationAlters ==
    [][\A p \in DOMAIN client_map :
         ( /\ last.kind = "S2X_RP"
           /\ last.result = "Ok"
           /\ last.passphrase = p
           /\ last'.result # "Io"
           /\ Altered(p) ) => MatchingConfirmation(p)]_vars

\* C4 as amended: a stored record is removed only by a hash-matching
\* confirmation for its passphrase, and altered only by a registration that is
\* issued the same passphrase, which replaces it.
C4_RecordLifetime ==
    [][\A p \in DOMAIN client_map :
         Altered(p) =>
           \/ MatchingConfirmation(p) /\ p \notin DOMAIN client_map'
           \/ /\ last'.kind = "S2X_RP"
              /\ last'.passphrase = p
              /\ p \in DOMAIN client_map']_vars

\* a matching confirmation removed one record and another one is still stored
C4_Witness ==
    /\ last.kind = "R2X_RSC"
    /\ last.result = "Ok"
    /\ last.passphrase \notin DOMAIN client_map
    /\ client_map # EmptyMap

\* C5: a confirmation that succeeds removes the record and sends one X2S_SCON,
\* to the sender address of the record, with the source address of the
\* confirmation and the receiver host of its payload; a confirmation that does
\* not succeed sends no X2S_SCON.
C5_ConnectRelay ==
    /\ \A p \in DOMAIN client_map, a \in Addrs, h \in ClaimedHashes,
          host \in Hosts, sendOk \in BOOLEAN :
         LET out == handle_receiver_accept(client_map, a, Confirm(p, h, host), sendOk)
         IN IF out.result = "Ok"
            THEN /\ p \notin DOMAIN out.map
                 /\ out.sent = <<[to |-> client_map[p].sender_addr,
                                  tag |-> "X2S_SCON",
                                  body |-> [receiver_addr |-> a,
                                            receiver_host |-> host]]>>
            ELSE out.sent = <<>>
    /\ \A i \in 1..Len(sent) :
         sent[i].tag = "X2S_SCON" =>
           /\ last.kind = "R2X_RSC"
           /\ last.result = "Ok"
           /\ Len(sent) = 1
           /\ sent[i].body.receiver_addr = last.src

\* a confirmation succeeded and the X2S_SCON went to another party than the
\* one that confirmed
C5_Witness ==
    /\ last.kind = "R2X_RSC"
    /\ last.result = "Ok"
    /\ Len(sent) = 1
    /\ sent[1].tag = "X2S_SCON"
    /\ sent[1].to # last.src

\* C6: after every datagram it has received, whatever its content, the server
\* is still in its control loop.
C6_LoopSurvivesEveryDatagram ==
    last.kind \in {"invalid_utf8", "unknown_tag", "S2X_RP", "R2X_RFI", "R2X_RSC"}
        => running

\* C7: a lookup leaves the store as it was, whether the passphrase is present
\* or absent, and the record it returned is still stored.
C7_LookupFrame ==
    /\ \A a \in Addrs, p \in Passphrases, sendOk \in BOOLEAN :
         handle_receiver_request_file_info(client_map, a, Lookup(p), sendOk).map
             = client_map
    /\ (last.kind = "R2X_RFI" /\ last.result = "Ok") =>
         /\ last.passphrase \in DOMAIN client_map
         /\ sent = <<[to |-> last.src, tag |-> "X2R_AFI",
                      body |-> client_map[last.passphrase]]>>

\* a record was returned to the party that registered it and is still stored
C7_Witness ==
    /\ last.kind = "R2X_RFI"
    /\ last.result = "Ok"
    /\ last.passphrase \in DOMAIN client_map
    /\ client_map[last.passphrase].sender_addr = last.src

\* what handling a request lets anyone outside the server observe: the error
\* kind and the datagrams sent
Observation(out) == [result |-> out.result, sent |-> out.sent]

\* C8: a confirmation with a wrong hash for a stored passphrase gives the same
\* error kind and the same (no) datagrams as the same confirmation handled by
\* a server whose store differs only in not having that passphrase.
C8_MismatchLooksLikeAbsent ==
    \A p \in DOMAIN client_map, a \in Addrs, host \in Hosts, sendOk \in BOOLEAN :
      \A h \in ClaimedHashes \ {client_map[p].file_hash} :
        LET without == [q \in DOMAIN client_map \ {p} |-> client_map[q]]
        IN /\ Observation(handle_receiver_accept(
                              client_map, a, Confirm(p, h, host), sendOk))
                = Observation(handle_receiver_accept(
                                  without, a, Confirm(p, h, host), sendOk))
           /\ handle_receiver_accept(without, a, Confirm(p, h, host), sendOk).result
                = "PassphraseNotFound"

\* a wrong-hash confirmation for a stored passphrase was rejected while some
\* other passphrase is not stored
C8_Witness ==
    /\ last.kind = "R2X_RSC"
    /\ last.result = "PassphraseNotFound"
    /\ sent = <<>>
    /\ last.passphrase \in DOMAIN client_map
    /\ last.file_hash = BadHash
    /\ Passphrases \ DOMAIN client_map # {}

\* C9: a confirmation that another party sends right after a registration
\* has succeeded, so with no lookup in between, removes the record and has
\* X2S_SCON sent only if it carries a file hash, the one thing in it that its
\* requester cannot write without the record's metadata.
C9_ConfirmProvesHash ==
    [][( /\ last.kind = "S2X_RP"
         /\ last.result = "Ok"
         /\ last'.kind = "R2X_RSC"
         /\ last'.passphrase = last.passphrase
         /\ last'.src # last.src
         /\ last'.result = "Ok" )
       => last'.file_hash \in FileHashes]_vars

\* C10: with the generator exhausted a registration fails with the
\* passphrase-generation error, leaves the store as it was and sends nothing.
C10_GeneratorExhausted ==
    /\ \A a \in Addrs, payload \in S2XRequestPassphraseMessage,
          now \in Times, sendOk \in BOOLEAN :
         LET out == handle_sender_request_passphrase_message(
                        client_map, a, payload, NoPass, now, sendOk)
         IN /\ out.result = "PassphraseGenerationError"
            /\ out.map = client_map
            /\ out.sent = <<>>
    /\ (last.kind = "S2X_RP" /\ last.result = "PassphraseGenerationError")
         => (sent = <<>> /\ last.passphrase = NoPass)

\* a registration failed on the exhausted generator while records are stored
C10_Witness ==
    /\ last.kind = "S2X_RP"
    /\ last.result = "PassphraseGenerationError"
    /\ client_map # EmptyMap

(* ------------------------- the transfer between peers ------------------ *)
(* Send::run and Get::run from the point where each has wrapped its socket  *)
(* in a ReliableUdpSocket.  The socket's code is not part of the sources    *)
(* at hand: its three operations follow the description of the stop-and-    *)
(* wait transport, in which a send blocks until it is acknowledged or the   *)
(* retry budget is used up.  The loops around them follow send.rs, get.rs.  *)

\* the longest file sent
MaxFileLen == 2

\* transmissions of one frame before write_and_flush gives up
RetryBudget == 2

\* frames and acknowledgments the network loses during one transfer
MaxDrops == 1

\* a file of n bytes, every byte different from the others
FileOf(n) == [i \in 1..n |-> i]

Files == {FileOf(n) : n \in 0..MaxFileLen}

\* values of --chunk-size: the smallest, one that splits the file, the
\* largest whose progress rate is not zero, and the next one
ChunkSizes == {1, 2, 25600, 25601}

Min(a, b) == IF a <= b THEN a ELSE b

\* update_progress_rate, in u32 arithmetic
update_progress_rate(chunk_size) == (1024 * 25) \div chunk_size

Frame(seq, payload) == [seq |-> seq, payload |-> payload]

\* a payload length of zero denotes the end-of-stream marker
IsEnd(f) == Len(f.payload) = 0

TransferOutcome(state, frames) == [state |-> state, frames |-> frames]

\* the frame write_and_flush transmits, and transmits again on a timeout
transmit(s) == Frame(s.sequence_number, s.buffer)

\* ReliableUdpSocket::end: the end-of-stream frame
end(s) == Frame(s.sequence_number, <<>>)

\* file.read(&mut buffer) of a regular file: the next chunk_size bytes, or
\* what is left of the file
file_read(f, s) == SubSeq(f, s.pos + 1, Min(Len(f), s.pos + s.chunk_size))

\* the head of the sender's loop: nothing left to read ends the stream and
\* leaves the loop, otherwise the chunk goes to write_and_flush
sender_read(f, s) ==
    LET chunk == file_read(f, s)
    IN IF Len(chunk) = 0
       THEN TransferOutcome([s EXCEPT !.pc = "done"], {end(s)})
       ELSE LET w == [s EXCEPT !.pc = "write", !.buffer = chunk,
                               !.pos = @ + Len(chunk), !.tries = 1]
            IN TransferOutcome(w, {transmit(w)})

\* write_and_flush has received the acknowledgment of its frame: it returns
\* Ok, and the next frame bears the next sequence number
acknowledged(s) == [s EXCEPT !.sequence_number = @ + 1]

\* the blocking read of write_and_flush has run into its deadline: the same
\* frame goes out again, or the retry budget is used up and the call fails
write_and_flush_timeout(s) ==
    IF s.tries < RetryBudget
    THEN [state |-> [s EXCEPT !.tries = @ + 1], frames |-> {transmit(s)},
          result |-> "Retry"]
    ELSE [state |-> s, frames |-> {}, result |-> "Err"]

SenderIgnoresError(s, result) ==
    [s EXCEPT !.pc = "progress", !.bytes_sent = @ + Len(s.buffer),
              !.transport_error = (result = "Err")]

\* write_and_flush(..)? and the line after it: an Err leaves run(), an Ok
\* adds the chunk to bytes_sent
sender_after_write(s, result) ==
    IF result = "Err"
    THEN [s EXCEPT !.pc = "failed", !.transport_error = TRUE]
    ELSE [s EXCEPT !.pc = "progress", !.bytes_sent = @ + Len(s.buffer)]

\* current_progress += 1; if current_progress % update_progress_rate == 0:
\* a remainder by zero panics
sender_progress(s) ==
    LET rate == update_progress_rate(s.chunk_size)
    IN [s EXCEPT !.current_progress = @ + 1,
                 !.pc = IF rate = 0 THEN "panicked" ELSE "read"]

ReceiveDropsDuplicate(r, f) ==
    IF f.seq = r.expected
    THEN TransferOutcome([r EXCEPT !.expected = @ + 1,
                                   !.read_buffer = f.payload, !.pc = "write",
                                   !.event = IF IsEnd(f) THEN "end"
                                             ELSE "deliver"],
                         {f.seq})
    ELSE IF f.seq < r.expected
         THEN TransferOutcome([r EXCEPT !.event = "duplicate"], {})
         ELSE TransferOutcome(r, {})

\* ReliableUdpSocket::read is handed a frame: the frame with the expected
\* sequence number is acknowledged and returned to the caller, a frame seen
\* before is acknowledged again and discarded, any other is discarded.  The
\* second component is the acknowledgments sent.
receive_frame(r, f) ==
    IF f.seq = r.expected
    THEN TransferOutcome([r EXCEPT !.expected = @ + 1,
                                   !.read_buffer = f.payload, !.pc = "write",
                                   !.event = IF IsEnd(f) THEN "end"
                                             ELSE "deliver"],
                         {f.seq})
    ELSE IF f.seq < r.expected
         THEN TransferOutcome([r EXCEPT !.event = "duplicate"], {f.seq})
         ELSE TransferOutcome(r, {})

ReceiverWritesZeroLength(r) ==
    [r EXCEPT !.pc = "progress", !.out = @ \o r.read_buffer,
              !.bytes_received = @ + Len(r.read_buffer)]

ReceiverWritesChunkTwice(r) ==
    IF Len(r.read_buffer) = 0
    THEN [r EXCEPT !.pc = "done"]
    ELSE [r EXCEPT !.pc = "progress",
                   !.out = @ \o r.read_buffer \o r.read_buffer,
                   !.bytes_received = @ + Len(r.read_buffer)]

\* the receiver's loop after read(..)? returned: a zero-length read leaves
\* the loop, anything else is written to the file and counted
receiver_write(r) ==
    IF Len(r.read_buffer) = 0
    THEN [r EXCEPT !.pc = "done"]
    ELSE [r EXCEPT !.pc = "progress", !.out = @ \o r.read_buffer,
                   !.bytes_received = @ + Len(r.read_buffer)]

\* the same bookkeeping as the sender's
receiver_progress(r) ==
    LET rate == update_progress_rate(r.chunk_size)
    IN [r EXCEPT !.current_progress = @ + 1,
                 !.pc = IF rate = 0 THEN "panicked" ELSE "read"]

\* sequence numbers a transfer of at most MaxFileLen bytes uses
SeqNums == 0..MaxFileLen

\* the peer a frame is on its way to has left its loop
ReceiverGone == rcv.pc \in {"done", "panicked"}

\* both peers are at the head of their loops, each with its own
\* --chunk-size; the receiver's buffer holds the sender's largest frame
InitTransfer ==
    /\ ServerInit
    /\ NoHandshake
    /\ file \in Files
    /\ \E cs \in ChunkSizes, cr \in ChunkSizes :
         /\ cs <= cr
         /\ snd = SenderAt(cs)
         /\ rcv = ReceiverAt(cr)
    /\ chan = {}
    /\ acks = {}
    /\ drops = 0

SenderRead ==
    /\ snd.pc = "read"
    /\ LET out == sender_read(file, snd)
       IN /\ snd' = out.state
          /\ chan' = chan \cup out.frames
    /\ UNCHANGED <<file, rcv, acks, drops, vars, handshake_vars>>

SenderAcknowledged ==
    /\ snd.pc = "write"
    /\ snd.sequence_number \in acks
    /\ acks' = acks \ {snd.sequence_number}
    /\ snd' = sender_after_write(acknowledged(snd), "Ok")
    /\ UNCHANGED <<file, rcv, chan, drops, vars, handshake_vars>>

\* the deadline passes only when the frame or its acknowledgment is lost,
\* or when nobody is left to acknowledge it
SenderTimeout ==
    /\ snd.pc = "write"
    /\ snd.sequence_number \notin acks
    /\ transmit(snd) \notin chan \/ ReceiverGone
    /\ LET out == write_and_flush_timeout(snd)
       IN /\ snd' = IF out.result = "Err"
                    THEN sender_after_write(out.state, "Err")
                    ELSE out.state
          /\ chan' = chan \cup out.frames
    /\ UNCHANGED <<file, rcv, acks, drops, vars, handshake_vars>>

SenderProgress ==
    /\ snd.pc = "progress"
    /\ snd' = sender_progress(snd)
    /\ UNCHANGED <<file, rcv, chan, acks, drops, vars, handshake_vars>>

\* the receiver's socket yields the frame with sequence number n; the
\* network may have duplicated it, so that it arrives again later
ReceiveSeq(n) ==
    /\ rcv.pc = "read"
    /\ \E f \in chan, again \in BOOLEAN :
         /\ f.seq = n
         /\ LET out == receive_frame(rcv, f)
            IN /\ rcv' = out.state
               /\ acks' = acks \cup out.frames
         /\ chan' = IF again THEN chan ELSE chan \ {f}
    /\ UNCHANGED <<file, snd, drops, vars, handshake_vars>>

ReceiverWrite ==
    /\ rcv.pc = "write"
    /\ rcv' = receiver_write(rcv)
    /\ UNCHANGED <<file, snd, chan, acks, drops, vars, handshake_vars>>

ReceiverProgress ==
    /\ rcv.pc = "progress"
    /\ rcv' = receiver_progress(rcv)
    /\ UNCHANGED <<file, snd, chan, acks, drops, vars, handshake_vars>>

\* the network loses a data frame
LoseFrame ==
    /\ drops < MaxDrops
    /\ \E f \in chan : ~IsEnd(f) /\ chan' = chan \ {f}
    /\ drops' = drops + 1
    /\ UNCHANGED <<file, snd, rcv, acks, vars, handshake_vars>>

\* the network loses an acknowledgment
LoseAck ==
    /\ drops < MaxDrops
    /\ \E a \in acks : acks' = acks \ {a}
    /\ drops' = drops + 1
    /\ UNCHANGED <<file, snd, rcv, chan, vars, handshake_vars>>

NextTransfer ==
    \/ SenderRead
    \/ SenderAcknowledged
    \/ SenderTimeout
    \/ SenderProgress
    \/ \E n \in SeqNums : ReceiveSeq(n)
    \/ ReceiverWrite
    \/ ReceiverProgress
    \/ LoseFrame
    \/ LoseAck

SpecTransfer == InitTransfer /\ [][NextTransfer]_all_vars

\* each peer keeps running, a frame that stays in flight reaches the
\* receiver's socket, and the network loses at most MaxDrops frames
FairTransfer ==
    /\ SpecTransfer
    /\ WF_all_vars(SenderRead)
    /\ WF_all_vars(SenderAcknowledged)
    /\ WF_all_vars(SenderTimeout)
    /\ WF_all_vars(SenderProgress)
    /\ \A n \in SeqNums : WF_all_vars(ReceiveSeq(n))
    /\ WF_all_vars(ReceiverWrite)
    /\ WF_all_vars(ReceiverProgress)

(* C11: under the fairness of FairTransfer, where the network loses fewer   *)
(* data frames and acknowledgments than the retry budget and never the      *)
(* end-of-stream frame, every transfer comes to the point where the         *)
(* receiver has left its loop on the zero-length read with exactly the      *)
(* bytes of the sender's file written, in order, and as many bytes counted  *)
(* as the sender counted.                                                   *)
C11_NoDataLoss ==
    <>(/\ rcv.pc = "done"
       /\ rcv.out = file
       /\ rcv.bytes_received = snd.bytes_sent)

IsPrefix(s, t) == Len(s) <= Len(t) /\ s = SubSeq(t, 1, Len(s))

\* the bytes the sender's loop has passed to write_and_flush so far
Passed == SubSeq(file, 1, snd.pos)

\* the bytes read() has returned to the receiver's loop so far: those
\* written to the file and the chunk just returned
Returned ==
    rcv.out \o (IF rcv.pc = "write" THEN rcv.read_buffer ELSE <<>>)

C13_DuplicateSuppression ==
    rcv.pc = "read" =>
        \A f \in chan :
           f.seq < rcv.expected =>
              LET out == receive_frame(rcv, f)
              IN /\ out.frames = {f.seq}
                 /\ out.state.pc = "read"
                 /\ out.state.out = rcv.out
                 /\ out.state.read_buffer = rcv.read_buffer
                 /\ out.state.expected = rcv.expected

\* a frame has arrived again after the acknowledgment of its first arrival
\* was lost, and has been acknowledged again
C13_Witness ==
    /\ rcv.event = "duplicate"
    /\ rcv.pc = "read"
    /\ drops > 0
    /\ snd.pc = "write"
    /\ snd.sequence_number < rcv.expected
    /\ snd.sequence_number \in acks

C15_RetryExhaustionAborts ==
    /\ [](snd.pc = "write" /\ snd.tries = RetryBudget =>
            LET out == write_and_flush_timeout(snd)
            IN /\ out.result = "Err"
               /\ out.frames = {}
               /\ sender_after_write(out.state, out.result).pc = "failed")
    /\ [](snd.transport_error => snd.pc = "failed")
    /\ [][snd.pc = "failed" =>
            /\ snd' = snd
            /\ chan' \subseteq chan
            /\ hs_sender' = hs_sender]_all_vars

\* the retry budget was used up on a frame that was never acknowledged,
\* with part of the file still to be sent
C15_Witness ==
    /\ snd.pc = "failed"
    /\ snd.transport_error
    /\ snd.tries = RetryBudget
    /\ transmit(snd) \in chan
    /\ snd.bytes_sent < Len(file)

(* C16: whenever the generator hands a registration a passphrase that is    *)
(* the key of a stored record, the registration succeeds, the store keeps   *)
(* the same keys with the new record under that passphrase and every other  *)
(* record as it was, the only datagram sent is the X2S_PPM to the new       *)
(* sender, and from then on a lookup returns the new record and a           *)
(* confirmation is checked against the new record's hash and relayed to     *)
(* the new sender.                                                          *)
C16_LastWriteWins ==
    \A p \in DOMAIN client_map, a \in Addrs, now \in Times :
      \A payload \in SenderPayloads(a) \ {Malformed} :
        LET new == MakeFileInfo(a, payload, now)
            reg == handle_sender_request_passphrase_message(
                       client_map, a, payload, p, now, TRUE)
        IN /\ reg.result = "Ok"
           /\ reg.sent = <<[to |-> a, tag |-> "X2S_PPM",
                            body |-> [passphrase |-> p]]>>
           /\ DOMAIN reg.map = DOMAIN client_map
           /\ reg.map[p] = new
           /\ \A q \in DOMAIN client_map \ {p} : reg.map[q] = client_map[q]
           /\ \A b \in Addrs :
                /\ handle_receiver_request_file_info(
                       reg.map, b, Lookup(p), TRUE).sent
                     = <<[to |-> b, tag |-> "X2R_AFI", body |-> new]>>
                /\ \A h \in ClaimedHashes :
                     LET acc == handle_receiver_accept(
                                    reg.map, b, Confirm(p, h, NoHost), TRUE)
                     IN IF h = new.file_hash
                        THEN /\ acc.result = "Ok"
                             /\ acc.sent =
                                  <<[to |-> a, tag |-> "X2S_SCON",
                                     body |-> [receiver_addr |-> b,
                                               receiver_host |-> NoHost]]>>
                        ELSE /\ acc.result = "PassphraseNotFound"
                             /\ acc.sent = <<>>
                             /\ acc.map = reg.map

\* a registration has just been issued the passphrase of another sender's
\* record; the record stored is the newcomer's, and only the newcomer was
\* written to
C16_Witness ==
    /\ last.kind = "S2X_RP"
    /\ last.result = "Ok"
    /\ last.replaced
    /\ client_map[last.passphrase].sender_addr = last.src
    /\ sent = <<[to |-> last.src, tag |-> "X2S_PPM",
                 body |-> [passphrase |-> last.passphrase]]>>

(* C18: an iteration of the server's loop whose handler returned an error   *)
(* leaves client_map as it was before the datagram arrived.                 *)
C18_ErrorLeavesStoreUnchanged ==
    [][last'.result \notin {"Ok", "Ignored"} => client_map' = client_map]_all_vars

(* C19: whatever chunk sizes of at least 1 the two peers run with, neither  *)
(* loop is ever stopped by an arithmetic fault in its progress bookkeeping. *)
C19_NoArithmeticFault ==
    /\ snd.chunk_size >= 1 => snd.pc # "panicked"
    /\ rcv.chunk_size >= 1 => rcv.pc # "panicked"

(* ------------------- the rendezvous of the peers ----------------------- *)
(* Send::run and Get::run up to the point where each connects its socket    *)
(* to the other peer and calls init_socket, with the relay server's         *)
(* handlers between them.  One sender registers one file; each receiver is  *)
(* given a passphrase by its user.                                          *)

\* receivers that try to fetch the file
NumReceivers == 2

\* the address the relay server sees the sender at
SenderAddr == 1

\* the addresses the relay server sees the receivers at
Receivers == {SenderAddr + i : i \in 1..NumReceivers}

Datagram(src, tag, body) == [src |-> src, tag |-> tag, body |-> body]

\* the datagrams the server has sent to the peer at address a with the tag
\* the peer waits for: receive_and_parse_and_expect
Received(a, tag) == {d \in inbox : d.to = a /\ d.tag = tag}

InitHandshake ==
    /\ ServerInit
    /\ NoTransfer
    /\ hs_sender = [pc |-> "start", passphrase |-> NoPass, peer |-> 0]
    /\ hs_recv = [r \in Receivers |->
                     [pc |-> "start", passphrase |-> NoPass, peer |-> 0]]
    /\ net = {}
    /\ inbox = {}
    /\ verdict = [r \in Receivers |-> "none"]

\* Send::run sends S2X_RP and waits for X2S_PPM
SenderRegister ==
    /\ hs_sender.pc = "start"
    /\ \E payload \in SenderPayloads(SenderAddr) \ {Malformed} :
         net' = net \cup {Datagram(SenderAddr, "S2X_RP", payload)}
    /\ hs_sender' = [hs_sender EXCEPT !.pc = "wait_ppm"]
    /\ UNCHANGED <<hs_recv, inbox, verdict, vars, transfer_vars>>

\* X2S_PPM has arrived: the passphrase is printed, Send::run waits for
\* X2S_SCON
SenderGotPassphrase ==
    /\ hs_sender.pc = "wait_ppm"
    /\ \E d \in Received(SenderAddr, "X2S_PPM") :
         hs_sender' = [hs_sender EXCEPT !.pc = "wait_scon",
                                        !.passphrase = d.body.passphrase]
    /\ UNCHANGED <<hs_recv, net, inbox, verdict, vars, transfer_vars>>

\* X2S_SCON has arrived: Send::run connects its socket to the receiver's
\* address and initialises the connection
SenderConnect ==
    /\ hs_sender.pc = "wait_scon"
    /\ \E d \in Received(SenderAddr, "X2S_SCON") :
         hs_sender' = [hs_sender EXCEPT !.pc = "exchange",
                                        !.peer = d.body.receiver_addr]
    /\ UNCHANGED <<hs_recv, net, inbox, verdict, vars, transfer_vars>>

\* Get::run sends R2X_RFI with the passphrase its user gave and waits for
\* X2R_AFI
ReceiverLookup ==
    /\ \E r \in Receivers, p \in Passphrases :
         /\ hs_recv[r].pc = "start"
         /\ net' = net \cup {Datagram(r, "R2X_RFI", Lookup(p))}
         /\ hs_recv' = [hs_recv EXCEPT ![r].pc = "wait_afi",
                                        ![r].passphrase = p]
    /\ UNCHANGED <<hs_sender, inbox, verdict, vars, transfer_vars>>

\* X2R_AFI has arrived: unless the user declines, Get::run sends R2X_RSC
\* with the hash it was told, connects its socket to the sender's address
\* and initialises the connection, without waiting for any answer
ReceiverConfirm ==
    /\ \E r \in Receivers, accept \in BOOLEAN :
         /\ hs_recv[r].pc = "wait_afi"
         /\ \E d \in Received(r, "X2R_AFI") :
              IF accept
              THEN /\ net' = net \cup
                        {Datagram(r, "R2X_RSC",
                                  Confirm(hs_recv[r].passphrase,
                                          d.body.file_hash, r))}
                   /\ hs_recv' = [hs_recv EXCEPT
                                     ![r].pc = "exchange",
                                     ![r].peer = d.body.sender_addr]
              ELSE /\ net' = net
                   /\ hs_recv' = [hs_recv EXCEPT ![r].pc = "cancelled"]
    /\ UNCHANGED <<hs_sender, inbox, verdict, vars, transfer_vars>>

\* the relay server takes a datagram off its socket and handles it
ServerHandle ==
    /\ \E d \in net, gen \in Passphrases, now \in Times :
         LET out ==
               IF d.tag = "S2X_RP"
               THEN handle_sender_request_passphrase_message(
                        client_map, d.src, d.body, gen, now, TRUE)
               ELSE IF d.tag = "R2X_RFI"
               THEN handle_receiver_request_file_info(
                        client_map, d.src, d.body, TRUE)
               ELSE handle_receiver_accept(client_map, d.src, d.body, TRUE)
         IN /\ net' = net \ {d}
            /\ client_map' = out.map
            /\ inbox' = inbox \cup {out.sent[i] : i \in DOMAIN out.sent}
            /\ verdict' = IF d.tag = "R2X_RSC"
                          THEN [verdict EXCEPT ![d.src] =
                                   IF out.result = "Ok" THEN "accepted"
                                   ELSE "rejected"]
                          ELSE verdict
    /\ UNCHANGED <<hs_sender, hs_recv, running, last, sent, spent,
                   transfer_vars>>

NextHandshake ==
    \/ SenderRegister
    \/ SenderGotPassphrase
    \/ SenderConnect
    \/ ReceiverLookup
    \/ ReceiverConfirm
    \/ ServerHandle

SpecHandshake == InitHandshake /\ [][NextHandshake]_all_vars

\* the server has relayed receiver r's address to the sender
Relayed(r) ==
    \E d \in Received(SenderAddr, "X2S_SCON") : d.body.receiver_addr = r

(* C17: a peer that has connected its socket to the other peer has got     *)
(* there in the order of the rendezvous: a receiver only after the server   *)
(* accepted its R2X_RSC and relayed its address to the sender, the sender   *)
(* only after X2S_PPM and then the X2S_SCON of a receiver the server        *)
(* accepted; and a receiver whose R2X_RSC the server rejected has not       *)
(* connected to the sender.                                                 *)
C17_HandshakeOrdering ==
    /\ \A r \in Receivers :
         hs_recv[r].pc = "exchange" => verdict[r] = "accepted" /\ Relayed(r)
    /\ hs_sender.pc = "exchange" =>
         /\ hs_sender.passphrase # NoPass
         /\ verdict[hs_sender.peer] = "accepted"
         /\ Relayed(hs_sender.peer)
    /\ \A r \in Receivers :
         verdict[r] = "rejected" => hs_recv[r].pc # "exchange"


====
